---- MODULE Spec2Model ----
(***************************************************************************)
(* Bounded-concurrency conversion pipeline of jhasselbring/vc.             *)
(*                                                                         *)
(* The model follows src/src/parallelProcessor.js (ProgressManager,        *)
(* processFile, runParallelProcessing) and src/src/ffmpegUtils.js          *)
(* (convertToWebm, moveFailedFile).  One action is one turn of the Node    *)
(* event loop: the callback of an external event (a child process's close  *)
(* event, the 100 ms timer) together with every promise continuation it    *)
(* triggers, since continuations run to completion before the next event.  *)
(* The external encoder is a separate process: the moment it creates its   *)
(* output file is an event of its own (EncodeOpen), or falls between two   *)
(* continuations of a turn.                                                *)
(***************************************************************************)
EXTENDS Integers, Sequences, FiniteSets

\* ------------------------------------------------------------------ bounds

\* Largest number of files handed to runParallelProcessing.
MaxFiles == 3

\* Largest concurrency limit (--parallel) tried.
MaxParallel == 2

\* ------------------------------------------------------------------- paths

\* A path below the parent of the conversion root: the directory directly
\* under the parent (the root itself or the quarantine sibling), the
\* directories below it, and the file name split as path.parse splits it.
MkPath(base, dir, name, ext) ==
    [base |-> base, dir |-> dir, name |-> name, ext |-> ext]

RootName == "root"

\* `@failed_vc_${targetDirName}`
FailedDirName(targetDirName) ==
    IF targetDirName = "root" THEN "@failed_vc_root" ELSE "@failed_vc_other"

\* The files of the tree in the order discovery lists them: readdirSync
\* gives the entries of a directory in the order of their names, and the
\* files below a directory stand at the place of the directory.  a.mov and
\* a.mp4 lie in the same directory and share the stem; one directory below
\* the root has a name that begins with two dots.
TreeOrder ==
    << MkPath(RootName, <<"..old">>, "a", "mp4"),
       MkPath(RootName, <<>>, "a", "mov"),
       MkPath(RootName, <<>>, "a", "mp4"),
       MkPath(RootName, <<"sub">>, "a", "mp4") >>

\* outputFilePath = path.join(parsedPath.dir, `${parsedPath.name}.webm`)
OutputFilePath(filePath) ==
    [filePath EXCEPT !.ext = "webm"]

\* The file and directory names of the tree that begin with "..".
DotDotNames ==
    {"..old"}

\* path.relative(rootDir, filePath).startsWith('..'): the test looks at the
\* first characters of the relative path, that is at the name of its first
\* component.
StartsWithDotDot(filePath) ==
    IF filePath.dir # <<>>
    THEN filePath.dir[1] \in DotDotNames
    ELSE filePath.name \in DotDotNames

\* path.dirname(safeRelativePath): the directories of the relative path,
\* or none when safeRelativePath is path.basename(filePath).
SafeRelativeDir(filePath) ==
    IF StartsWithDotDot(filePath) THEN <<>> ELSE filePath.dir

\* failedFilePath of moveFailedFile, below the decorated sibling directory.
FailedFilePath(filePath) ==
    [filePath EXCEPT !.base = FailedDirName(filePath.base),
                     !.dir = SafeRelativeDir(filePath)]

\* failedDirPath of moveFailedFile.
FailedDirPath(filePath) ==
    [base |-> FailedDirName(filePath.base), dir |-> SafeRelativeDir(filePath),
     name |-> "", ext |-> ""]

\* ------------------------------------------------------- quality parameter

DEFAULT_CRF == 24

\* What getMediaInfo hands to determineCrf: null, or { width, height,
\* bitRate } where bitRate may be NaN.
NullInfo ==
    [present |-> FALSE, width |-> 0, height |-> 0, bitRateIsNaN |-> TRUE, bitRate |-> 0]

MkInfo(w, h, known, br) ==
    [present |-> TRUE, width |-> w, height |-> h, bitRateIsNaN |-> ~known, bitRate |-> br]

\* OverEightMbps with the bound included.
OverEightMbpsInclusive(mediaInfo) ==
    (~mediaInfo.bitRateIsNaN) /\ mediaInfo.bitRate >= 8 * 1000000

\* bitRateMbps > 8, with bitRateMbps = bitRate / 1_000_000, or 0 for NaN.
OverEightMbps(mediaInfo) ==
    (~mediaInfo.bitRateIsNaN) /\ mediaInfo.bitRate > 8 * 1000000

\* The table of the synchronous variant (src/index.js), which has a
\* fourth value.
determineCrfFourValues(mediaInfo) ==
    IF ~mediaInfo.present THEN DEFAULT_CRF
    ELSE IF ((~mediaInfo.bitRateIsNaN) /\ mediaInfo.bitRate > 20 * 1000000)
            \/ mediaInfo.height >= 2160 THEN 18
    ELSE IF ((~mediaInfo.bitRateIsNaN) /\ mediaInfo.bitRate > 10 * 1000000)
            \/ mediaInfo.height >= 1440 THEN 20
    ELSE IF ((~mediaInfo.bitRateIsNaN) /\ mediaInfo.bitRate > 5 * 1000000)
            \/ mediaInfo.height >= 1080 THEN 22
    ELSE 24

determineCrf(mediaInfo) ==
    IF ~mediaInfo.present THEN DEFAULT_CRF
    ELSE IF OverEightMbps(mediaInfo) \/ mediaInfo.height >= 1080 THEN 24
    ELSE IF mediaInfo.height >= 720 THEN 22
    ELSE 20

\* ---------------------------------------------------------------- the probe

\* One property of the stream object in the JSON that ffprobe prints:
\*   "missing"  the property is absent (undefined)
\*   "text"     a string that does not begin with a number, such as "N/A"
\*   "num"      the JSON number val
\*   "str"      the string of the decimal digits of val
\*   "prefix"   the digits of val followed by other characters
RawMissing == [kind |-> "missing", val |-> 0]

RawText == [kind |-> "text", val |-> 0]

RawNum(n) ==
    [kind |-> "num", val |-> n]

RawStr(n) ==
    [kind |-> "str", val |-> n]

\* The digits of n followed by other characters, as in "2x".
RawPrefix(n) ==
    [kind |-> "prefix", val |-> n]

\* How a run of ffprobe ends.
\*   result  "spawn_error"   the process cannot be spawned
\*           "command_error" it exits with a nonzero code
\*           "unparsable"    it exits 0, JSON.parse(stdout) throws
\*           "no_stream"     output.streams is missing or empty
\*           "stream"        output.streams[0] has the three properties
MkProbe(result, width, height, bit_rate) ==
    [result |-> result, width |-> width, height |-> height, bit_rate |-> bit_rate]

ProbeFails(result) ==
    MkProbe(result, RawMissing, RawMissing, RawMissing)

\* parseInt(raw, 10): the integer that the text begins with, or NaN.
ParseInt(raw) ==
    IF raw.kind \in {"num", "str", "prefix"}
    THEN [nan |-> FALSE, val |-> raw.val]
    ELSE [nan |-> TRUE, val |-> 0]

\* The truth value JavaScript gives the property in `stream.bit_rate ? :`.
Truthy(raw) ==
    \/ raw.kind \in {"text", "str", "prefix"}
    \/ raw.kind = "num" /\ raw.val # 0

\* getMediaInfo that also rejects a width or height that is not positive.
getMediaInfoPositive(probe) ==
    IF probe.result # "stream" THEN NullInfo
    ELSE LET width   == ParseInt(probe.width)
             height  == ParseInt(probe.height)
             bitRate == IF Truthy(probe.bit_rate)
                        THEN ParseInt(probe.bit_rate)
                        ELSE [nan |-> TRUE, val |-> 0]
         IN  IF width.nan \/ height.nan \/ width.val <= 0 \/ height.val <= 0
             THEN NullInfo
             ELSE MkInfo(width.val, height.val, ~bitRate.nan, bitRate.val)

\* The value getMediaInfo returns: null from the catch block and from the
\* two early returns, the summary otherwise.
getMediaInfo(probe) ==
    IF probe.result # "stream" THEN NullInfo
    ELSE LET width   == ParseInt(probe.width)
             height  == ParseInt(probe.height)
             bitRate == IF Truthy(probe.bit_rate)
                        THEN ParseInt(probe.bit_rate)
                        ELSE [nan |-> TRUE, val |-> 0]
         IN  IF width.nan \/ height.nan
             THEN NullInfo
             ELSE MkInfo(width.val, height.val, ~bitRate.nan, bitRate.val)

\* getMediaInfoThrows without the catch block.
getMediaInfoUncaught(probe) ==
    probe.result \in {"spawn_error", "command_error", "unparsable"}

\* An exception leaves getMediaInfo: never, the catch block returns null
\* for a rejected runCommandAsync and for a throwing JSON.parse alike.
getMediaInfoThrows(probe) ==
    FALSE

\* ------------------------------------------- behaviour of the environment

\* How the external tools and the filesystem treat one file.  It is fixed
\* per file for a whole batch.
\*   probe          how the run of ffprobe for the file ends; the result
\*                  "hang" is a run that never ends
\*   enc            "ok"           ffmpeg writes the output and exits 0
\*                  "fail_partial" ffmpeg creates the output, exits nonzero
\*                  "fail_early"   ffmpeg exits nonzero without an output
\*                  "spawn_error"  ffmpeg cannot be spawned
\*                  "hang"         ffmpeg never ends
\*   unlinkSrcFails fs.unlinkSync(filePath) throws
\*   unlinkOutFails fs.unlinkSync(outputFilePath) throws
\*   move           "ok", or the step of moveFailedFile that throws
\*   pre            the output path exists before the batch starts
\*   fault          "none"; "try": an exception escapes the try block of
\*                  processFile; "report": the first call of
\*                  ProgressManager.update for the file throws while
\*                  writing to the console, after it has counted the file
MkBeh(probe, enc, srcFails, outFails, move, pre, fault) ==
    [probe |-> probe, enc |-> enc, unlinkSrcFails |-> srcFails,
     unlinkOutFails |-> outFails, move |-> move, pre |-> pre, fault |-> fault]

Probe1080 == MkProbe("stream", RawNum(1920), RawNum(1080), RawStr(6000000))

Probe720 == MkProbe("stream", RawNum(1280), RawNum(720), RawText)

Probe480 == MkProbe("stream", RawNum(640), RawNum(480), RawMissing)

ProbeNoWidth == MkProbe("stream", RawText, RawNum(480), RawStr(900000))

\* Behaviours with a reliable console: every way a conversion can end and
\* every way a probe can end.
Behaviours ==
    { MkBeh(ProbeFails("unparsable"), "ok", FALSE, FALSE, "ok", FALSE, "none"),
      MkBeh(ProbeNoWidth, "ok", TRUE, FALSE, "ok", FALSE, "none"),
      MkBeh(ProbeFails("spawn_error"), "ok", FALSE, FALSE, "ok", TRUE, "none"),
      MkBeh(ProbeFails("command_error"), "fail_partial", FALSE, FALSE, "ok", FALSE, "none"),
      MkBeh(Probe1080, "fail_partial", FALSE, TRUE, "rename", FALSE, "none"),
      MkBeh(ProbeFails("no_stream"), "fail_early", FALSE, FALSE, "mkdir", FALSE, "none"),
      MkBeh(Probe720, "spawn_error", FALSE, FALSE, "ok", FALSE, "none") }

\* Behaviours with an external process that never emits close or error,
\* beside one that ends and two that cannot be spawned.
HangBehaviours ==
    { MkBeh(ProbeFails("unparsable"), "ok", FALSE, FALSE, "ok", FALSE, "none"),
      MkBeh(Probe720, "spawn_error", FALSE, FALSE, "ok", FALSE, "none"),
      MkBeh(ProbeFails("spawn_error"), "ok", FALSE, FALSE, "ok", FALSE, "none"),
      MkBeh(ProbeFails("hang"), "ok", FALSE, FALSE, "ok", FALSE, "none"),
      MkBeh(Probe480, "hang", FALSE, FALSE, "ok", FALSE, "none") }

\* Behaviours in which writing to the console can throw.
FaultyBehaviours ==
    { MkBeh(Probe480, "ok", FALSE, FALSE, "ok", FALSE, "try"),
      MkBeh(Probe480, "ok", FALSE, FALSE, "ok", FALSE, "report") }

\* ------------------------------------------------------------------ inputs

RECURSIVE SubSeqAt(_, _, _)
\* The elements of seq at the positions in idx, in the order of seq.
SubSeqAt(seq, idx, i) ==
    IF i > Len(seq) THEN <<>>
    ELSE IF i \in idx THEN <<seq[i]>> \o SubSeqAt(seq, idx, i + 1)
    ELSE SubSeqAt(seq, idx, i + 1)

\* The lists discovery can return: files of the tree in discovery order.
FileLists ==
    { SubSeqAt(TreeOrder, idx, 1) :
        idx \in { s \in SUBSET (1 .. Len(TreeOrder)) : Cardinality(s) <= MaxFiles } }

Range(seq) ==
    { seq[i] : i \in 1 .. Len(seq) }

\* ------------------------------------------------------------------- state

VARIABLES
    files,              \* argument files of runParallelProcessing
    parallelCount,      \* argument parallelCount
    dryRun,             \* argument dryRun
    beh,                \* behaviour of the environment per file
    pcMain,             \* "created", "running": position of runParallelProcessing
    queue,              \* const queue = [...files]
    activeTasks,        \* const activeTasks = []
    processingComplete, \* let processingComplete = false
    resolved,           \* the returned promise has been resolved
    pc,                 \* per file: "queued", "probing", "encoding", "writing", "done"
    status,             \* per file: the status passed to update, or "none"
    processedCount,     \* ProgressManager.processedCount
    reports,            \* the calls of ProgressManager.update, in order
    fsys,               \* the paths that exist
    madeDirs,           \* the quarantine directories created
    encoderRuns,        \* the ffmpeg invocations: file and crf
    ops,                \* the filesystem operations performed, by pipeline
    steps,              \* per file: what convertToWebm did after ffmpeg ended, in order
    call,               \* a call of one function on its own
    cli                 \* the command line program around the batch

vars ==
    << files, parallelCount, dryRun, beh, pcMain, queue, activeTasks,
       processingComplete, resolved, pc, status, processedCount, reports,
       fsys, madeDirs, encoderRuns, ops, steps, call, cli >>

\* The batch is run without the command line program.
NoCli ==
    [pc |-> "none"]

\* No call on its own is made while a batch runs.
NoCall ==
    [pc |-> "none"]

\* The filesystem before the batch: every listed source, and the outputs
\* that already exist.
InitialFs(fl, b) ==
    Range(fl) \cup { OutputFilePath(f) : f \in { g \in Range(fl) : b[g].pre } }

\* With dryRun set neither ffmpeg nor a mutating filesystem call is reached,
\* so only the behaviours that differ before that point are drawn.
BehavioursFor(behaviours, dry) ==
    IF dry
    THEN { b \in behaviours : b.enc = "ok" /\ ~b.unlinkSrcFails }
    ELSE behaviours

InitWith(behaviours) ==
    /\ files \in FileLists
    /\ parallelCount \in 1 .. MaxParallel
    /\ dryRun \in BOOLEAN
    /\ beh \in [Range(files) -> BehavioursFor(behaviours, dryRun)]
    /\ pcMain = "created"
    /\ queue = files
    /\ activeTasks = <<>>
    /\ processingComplete = FALSE
    /\ resolved = FALSE
    /\ pc = [f \in Range(files) |-> "queued"]
    /\ status = [f \in Range(files) |-> "none"]
    /\ processedCount = 0
    /\ reports = <<>>
    /\ fsys = InitialFs(files, beh)
    /\ madeDirs = {}
    /\ encoderRuns = {}
    /\ ops = {}
    /\ steps = [f \in Range(files) |-> <<>>]
    /\ call = NoCall
    /\ cli = NoCli

Init ==
    InitWith(Behaviours)

\* ----------------------------------------------------------- the scheduler

\* CanAdmit that waits for the pool to be empty.
CanAdmitWhenIdle(a, q) ==
    Len(a) = 0 /\ Len(q) > 0

\* CanAdmit with the comparison off by one.
CanAdmitOffByOne(a, q) ==
    Len(a) <= parallelCount /\ Len(q) > 0

\* while (activeTasks.length < parallelCount && queue.length > 0)
CanAdmit(a, q) ==
    Len(a) < parallelCount /\ Len(q) > 0

\* IsDrained without the test of the in-flight tasks.
IsDrainedQueueOnly(q, a) ==
    Len(q) = 0

\* queue.length === 0 && activeTasks.length === 0
IsDrained(q, a) ==
    Len(q) = 0 /\ Len(a) = 0

\* RemoveTask when indexOf finds nothing.
RemoveTaskNotFound(a, f) ==
    a

\* activeTasks.indexOf(taskPromise), then splice(index, 1).  A task is named
\* by its file; the files of a list are distinct.
RemoveTask(a, f) ==
    SelectSeq(a, LAMBDA g : g # f)

\* AdmitLoop with an if in place of the while: one admission per call.
AdmitLoopOnce(q, a, p) ==
    IF CanAdmit(a, q)
    THEN [queue |-> Tail(q), activeTasks |-> Append(a, Head(q)),
          pc |-> [p EXCEPT ![Head(q)] = "probing"]]
    ELSE [queue |-> q, activeTasks |-> a, pc |-> p]

RECURSIVE AdmitLoopFromEnd(_, _, _)
\* AdmitLoop taking the last file of the queue (queue.pop()).
AdmitLoopFromEnd(q, a, p) ==
    IF CanAdmit(a, q)
    THEN AdmitLoopFromEnd(SubSeq(q, 1, Len(q) - 1), Append(a, q[Len(q)]),
                          [p EXCEPT ![q[Len(q)]] = "probing"])
    ELSE [queue |-> q, activeTasks |-> a, pc |-> p]

RECURSIVE AdmitLoop(_, _, _)
\* The while loop of runNext.  processFile runs synchronously up to its
\* first await, inside getMediaInfo, where ffprobe has been spawned.
AdmitLoop(q, a, p) ==
    IF CanAdmit(a, q)
    THEN AdmitLoop(Tail(q), Append(a, Head(q)), [p EXCEPT ![Head(q)] = "probing"])
    ELSE [queue |-> q, activeTasks |-> a, pc |-> p]

\* runNext()
RunNext(complete, q, a, p) ==
    IF complete
    THEN [queue |-> q, activeTasks |-> a, pc |-> p, processingComplete |-> complete]
    ELSE LET r == AdmitLoop(q, a, p)
         IN  [queue |-> r.queue, activeTasks |-> r.activeTasks, pc |-> r.pc,
              processingComplete |-> IsDrained(r.queue, r.activeTasks)]

\* TaskFinally that does not call runNext().
TaskFinallyNoRunNext(f, complete, q, a, p) ==
    LET a1 == RemoveTask(a, f)
        p1 == [p EXCEPT ![f] = "done"]
    IN  [queue |-> q, activeTasks |-> a1, pc |-> p1,
         processingComplete |-> IsDrained(q, a1)]

\* The .finally handler of the task promise.
TaskFinally(f, complete, q, a, p) ==
    LET a1 == RemoveTask(a, f)
        p1 == [p EXCEPT ![f] = "done"]
    IN  IF IsDrained(q, a1)
        THEN [queue |-> q, activeTasks |-> a1, pc |-> p1, processingComplete |-> TRUE]
        ELSE RunNext(complete, q, a1, p1)

\* UpdateCount without the increment.
UpdateCountSkipped(count) ==
    count

\* this.processedCount++
UpdateCount(count) ==
    count + 1

\* One call of ProgressManager.update(filePath, status).
MkReport(f, st, count) ==
    [file |-> f, status |-> st, count |-> count]

\* ReportsFor with the call in the .catch handler made on every path.
ReportsForBoth(f, st, count) ==
    << MkReport(f, st, UpdateCount(count)),
       MkReport(f, "error_runner_internal", UpdateCount(UpdateCount(count))) >>

\* The calls of update made for one finished pipeline: the one in the
\* finally block of processFile and, when that call throws, the one in the
\* .catch handler of the task runner.
\* (In a turn in which the pipeline of f is the only one that runs: the
\* two calls then follow one another.)
ReportsFor(f, st, count) ==
    IF beh[f].fault = "report"
    THEN << MkReport(f, st, UpdateCount(count)),
            MkReport(f, "error_runner_internal", UpdateCount(UpdateCount(count))) >>
    ELSE << MkReport(f, st, UpdateCount(count)) >>

\* ----------------------------------------------------------- the converter

\* One filesystem operation of the pipeline of file `by`.  shared: the path
\* is the source or the output path of another pipeline in flight.
Shared(by, path, a) ==
    \E i \in 1 .. Len(a) : a[i] # by /\ path \in {a[i], OutputFilePath(a[i])}

MkOp(by, op, path, ok, a) ==
    [by |-> by, op |-> op, path |-> path, ok |-> ok, shared |-> Shared(by, path, a)]

\* ConvertEntry with the two early returns in the other order.
ConvertEntryExistsFirst(f, dry, fs) ==
    IF OutputFilePath(f) \in fs THEN [ret |-> "skipped_exists", checked |-> TRUE]
    ELSE IF dry THEN [ret |-> "skipped_dry_run", checked |-> TRUE]
    ELSE [ret |-> "spawn", checked |-> TRUE]

\* ConvertEntry with the result of existsSync negated.
ConvertEntryNegated(f, dry, fs) ==
    IF dry THEN [ret |-> "skipped_dry_run", checked |-> FALSE]
    ELSE IF OutputFilePath(f) \notin fs THEN [ret |-> "skipped_exists", checked |-> TRUE]
    ELSE [ret |-> "spawn", checked |-> TRUE]

\* ConvertEntry without the test for an existing output.
ConvertEntryNoCheck(f, dry, fs) ==
    IF dry THEN [ret |-> "skipped_dry_run", checked |-> FALSE]
    ELSE [ret |-> "spawn", checked |-> FALSE]

\* The head of convertToWebm, up to the spawn of ffmpeg.
\* checked: fs.existsSync(outputFilePath) was evaluated.
ConvertEntry(f, dry, fs) ==
    IF dry THEN [ret |-> "skipped_dry_run", checked |-> FALSE]
    ELSE IF OutputFilePath(f) \in fs THEN [ret |-> "skipped_exists", checked |-> TRUE]
    ELSE [ret |-> "spawn", checked |-> TRUE]

\* ffmpeg opens its output file (-y: an existing file is overwritten).
EncoderCreates(b) ==
    b.enc \in {"ok", "fail_partial"}

\* MoveFailedFile without its try/catch: a failing mkdirSync or renameSync
\* throws out of the function.
MoveFailedFileUncaught(f, b, fs, dirs, a) ==
    IF b.move = "mkdir"
    THEN [fsys |-> fs, madeDirs |-> dirs, threw |-> TRUE, steps |-> <<"mkdir">>,
          ops |-> {MkOp(f, "mkdir", FailedDirPath(f), FALSE, a)}]
    ELSE LET mk == { MkOp(f, "mkdir", FailedDirPath(f), TRUE, a),
                     MkOp(f, "check_source", f, f \in fs, a) }
             d1 == dirs \cup {FailedDirPath(f)}
         IN  IF f \notin fs
             THEN [fsys |-> fs, madeDirs |-> d1, threw |-> FALSE,
                   steps |-> <<"mkdir", "check_source">>, ops |-> mk]
             ELSE IF b.move = "rename"
             THEN [fsys |-> fs, madeDirs |-> d1, threw |-> TRUE,
                   steps |-> <<"mkdir", "check_source", "rename">>,
                   ops |-> mk \cup {MkOp(f, "rename", f, FALSE, a)}]
             ELSE [fsys |-> (fs \ {f}) \cup {FailedFilePath(f)}, madeDirs |-> d1,
                   threw |-> FALSE,
                   steps |-> <<"mkdir", "check_source", "rename">>,
                   ops |-> mk \cup {MkOp(f, "rename", f, TRUE, a)}]

\* moveFailedFile(filePath, rootDir): mkdirSync, then existsSync(filePath),
\* then renameSync.  Every exception is caught inside (threw is FALSE).
\* steps: the calls made, in order.
MoveFailedFile(f, b, fs, dirs, a) ==
    IF b.move = "mkdir"
    THEN [fsys |-> fs, madeDirs |-> dirs, threw |-> FALSE, steps |-> <<"mkdir">>,
          ops |-> {MkOp(f, "mkdir", FailedDirPath(f), FALSE, a)}]
    ELSE LET mk == { MkOp(f, "mkdir", FailedDirPath(f), TRUE, a),
                     MkOp(f, "check_source", f, f \in fs, a) }
             d1 == dirs \cup {FailedDirPath(f)}
         IN  IF f \notin fs
             THEN [fsys |-> fs, madeDirs |-> d1, threw |-> FALSE,
                   steps |-> <<"mkdir", "check_source">>, ops |-> mk]
             ELSE IF b.move = "rename"
             THEN [fsys |-> fs, madeDirs |-> d1, threw |-> FALSE,
                   steps |-> <<"mkdir", "check_source", "rename">>,
                   ops |-> mk \cup {MkOp(f, "rename", f, FALSE, a)}]
             ELSE [fsys |-> (fs \ {f}) \cup {FailedFilePath(f)}, madeDirs |-> d1,
                   threw |-> FALSE,
                   steps |-> <<"mkdir", "check_source", "rename">>,
                   ops |-> mk \cup {MkOp(f, "rename", f, TRUE, a)}]

\* AfterEncodeOk that reports a failed deletion of the source with the
\* status of a failed conversion.
AfterEncodeOkMerged(f, b, fs, dirs, a) ==
    IF b.unlinkSrcFails \/ f \notin fs
    THEN [status |-> "error_converting", fsys |-> fs, madeDirs |-> dirs,
          steps |-> <<"unlink_source", "return">>,
          ops |-> {MkOp(f, "unlink", f, FALSE, a)}]
    ELSE [status |-> "converted", fsys |-> fs \ {f}, madeDirs |-> dirs,
          steps |-> <<"unlink_source", "return">>,
          ops |-> {MkOp(f, "unlink", f, TRUE, a)}]

\* The try block of convertToWebm after ffmpeg exited with code 0.
AfterEncodeOk(f, b, fs, dirs, a) ==
    IF b.unlinkSrcFails \/ f \notin fs
    THEN [status |-> "error_deleting", fsys |-> fs, madeDirs |-> dirs,
          steps |-> <<"unlink_source", "return">>,
          ops |-> {MkOp(f, "unlink", f, FALSE, a)}]
    ELSE [status |-> "converted", fsys |-> fs \ {f}, madeDirs |-> dirs,
          steps |-> <<"unlink_source", "return">>,
          ops |-> {MkOp(f, "unlink", f, TRUE, a)}]

\* The catch block of convertToWebm: ffmpeg exited nonzero or was not
\* spawned.  existsSync(outputFilePath), unlinkSync(outputFilePath) in a
\* try/catch of its own, moveFailedFile, return 'error_converting'.  An
\* exception out of moveFailedFile would leave convertToWebm and be caught
\* by processFile.
AfterEncodeError(f, b, fs, dirs, a) ==
    LET out == OutputFilePath(f)
        chk == MkOp(f, "check_partial", out, out \in fs, a)
        fs1 == IF out \in fs /\ ~b.unlinkOutFails THEN fs \ {out} ELSE fs
        del == IF out \in fs
               THEN {MkOp(f, "unlink", out, ~b.unlinkOutFails, a)}
               ELSE {}
        mv  == MoveFailedFile(f, b, fs1, dirs, a)
    IN  [status |-> IF mv.threw THEN "error_task_internal" ELSE "error_converting",
         fsys |-> mv.fsys, madeDirs |-> mv.madeDirs,
         steps |-> <<"check_partial">>
                   \o (IF out \in fs THEN <<"unlink_output">> ELSE <<>>)
                   \o mv.steps
                   \o (IF mv.threw THEN <<>> ELSE <<"return">>),
         ops |-> {chk} \cup del \cup mv.ops]

\* convertToWebm from the settling of runCommandAsync('ffmpeg', ...) on.
AfterEncode(f, b, fs, dirs, a) ==
    IF b.enc = "ok"
    THEN AfterEncodeOk(f, b, fs, dirs, a)
    ELSE AfterEncodeError(f, b, fs, dirs, a)

\* ------------------------------------------- encoders beside the event loop

\* The ffmpeg processes of pool a that run and have yet to create their
\* output; p: the positions of the pipelines.
RunningEncoders(p, a) ==
    { f \in Range(a) : p[f] = "encoding" /\ EncoderCreates(beh[f]) }

\* The positions after the encoders of O have created their outputs.
Opened(p, O) ==
    [f \in DOMAIN p |-> IF f \in O THEN "writing" ELSE p[f]]

\* The output files the encoders of O create.
Outputs(O) ==
    { OutputFilePath(f) : f \in O }

\* The operations recorded for them; a: the pool at that moment.
Creates(O, a) ==
    { MkOp(f, "create", OutputFilePath(f), TRUE, a) : f \in O }

\* ------------------------------------------------------ spawn errors

\* A process that cannot be spawned makes its error known by
\* process.nextTick, in the turn of the event loop that spawned it: the
\* errors of all processes spawned in one turn are delivered together, and
\* the pipelines they belong to then run side by side, one microtask each
\* in the order of the spawns, until every one has ended or spawned again.
\* The encoders that run are processes of their own: one of them may create
\* its output before the turn, after it, or between two of its microtasks.
\* Only the microtasks that read the filesystem or change the pool tell the
\* difference, so that is where the model lets the encoders act.

\* ffprobe for f could not be spawned and the error is not yet delivered.
ProbeErrorPending(p, f) ==
    p[f] = "probing" /\ beh[f].probe.result = "spawn_error"

\* ffmpeg for f could not be spawned and the error is not yet delivered.
EncodeErrorPending(p, f) ==
    p[f] = "encoding" /\ beh[f].enc = "spawn_error"

SpawnErrorPending ==
    \E f \in Range(activeTasks) :
        ProbeErrorPending(pc, f) \/ EncodeErrorPending(pc, f)

\* The state the pipelines work on within one turn.
TurnState ==
    [queue |-> queue, activeTasks |-> activeTasks, pc |-> pc,
     processingComplete |-> processingComplete, status |-> status,
     processedCount |-> processedCount, reports |-> reports, fsys |-> fsys,
     madeDirs |-> madeDirs, encoderRuns |-> encoderRuns, ops |-> ops,
     steps |-> steps]

\* The catch block of convertToWebm for f; a: the pool during the turn.
TurnCleanup(s, f, a) ==
    LET r == AfterEncode(f, beh[f], s.fsys, s.madeDirs, a)
    IN  [s EXCEPT !.status = [s.status EXCEPT ![f] = r.status],
                  !.fsys = r.fsys, !.madeDirs = r.madeDirs,
                  !.ops = s.ops \cup r.ops,
                  !.steps = [s.steps EXCEPT ![f] = r.steps]]

\* processFile for f from the return of getMediaInfo to the await of
\* convertToWebm; a: the pool during the turn.
TurnConvert(s, f, a) ==
    LET mediaInfo == getMediaInfo(beh[f].probe)
        crf       == determineCrf(mediaInfo)
        entry     == ConvertEntry(f, dryRun, s.fsys)
        chk       == IF entry.checked
                     THEN {MkOp(f, "check_output", OutputFilePath(f),
                                OutputFilePath(f) \in s.fsys, a)}
                     ELSE {}
    IN  IF beh[f].fault = "try" \/ getMediaInfoThrows(beh[f].probe)
        THEN [s EXCEPT !.status = [s.status EXCEPT ![f] = "error_task_internal"]]
        ELSE IF entry.ret = "spawn"
        THEN [s EXCEPT !.pc = [s.pc EXCEPT ![f] = "encoding"],
                       !.encoderRuns = s.encoderRuns \cup {[file |-> f, crf |-> crf]},
                       !.ops = s.ops \cup chk]
        ELSE [s EXCEPT !.status = [s.status EXCEPT ![f] = entry.ret],
                       !.ops = s.ops \cup chk]

\* The finally block of processFile for f: the call of update.
TurnReport(s, f, a) ==
    LET rs == ReportsFor(f, s.status[f], s.processedCount)
    IN  [s EXCEPT !.reports = Append(s.reports, rs[1]),
                  !.processedCount = rs[1].count]

\* The .catch handler of the task of f, one microtask later: when update
\* threw, it calls update again; otherwise it is passed by.
TurnCatch(s, f, a) ==
    IF beh[f].fault = "report"
    THEN [s EXCEPT !.reports = Append(s.reports,
                                      MkReport(f, "error_runner_internal",
                                               UpdateCount(s.processedCount))),
                   !.processedCount = UpdateCount(s.processedCount)]
    ELSE s

\* The .finally handler of the task of f.
TurnFinally(s, f, a) ==
    LET t == TaskFinally(f, s.processingComplete, s.queue, s.activeTasks, s.pc)
    IN  [s EXCEPT !.queue = t.queue, !.activeTasks = t.activeTasks, !.pc = t.pc,
                  !.processingComplete = t.processingComplete]

\* The encoders of O create their output files between two microtasks.
TurnOpen(s, O) ==
    [s EXCEPT !.pc = Opened(s.pc, O),
              !.fsys = s.fsys \cup Outputs(O),
              !.ops = s.ops \cup Creates(O, s.activeTasks)]

\* What the running encoders may have done to s before the next microtask.
TurnOpens(s) ==
    { TurnOpen(s, O) : O \in SUBSET RunningEncoders(s.pc, s.activeTasks) }

\* One microtask of the pipeline of f.
TurnStep(kind, s, f, a) ==
    CASE kind = "cleanup" -> TurnCleanup(s, f, a)
      [] kind = "convert" -> TurnConvert(s, f, a)
      [] kind = "report"  -> TurnReport(s, f, a)
      [] kind = "catch"   -> TurnCatch(s, f, a)
      [] kind = "finally" -> TurnFinally(s, f, a)

RECURSIVE TurnEach(_, _, _, _, _)
\* The microtask `kind` for the files of fs from the i-th on, in order.
TurnEach(kind, s, fs, i, a) ==
    IF i > Len(fs)
    THEN s
    ELSE CHOOSE r \in { TurnEach(kind, t, fs, i + 1, a) :
                            t \in {TurnStep(kind, s, fs[i], a)} } : TRUE

RECURSIVE TurnRace(_, _, _, _, _, _)
\* The states after the microtask `kind` for the files of fs from the i-th
\* on, each of which reads the filesystem or changes the pool.  between: a
\* microtask of this turn came before, so that encoders may have acted
\* since.
TurnRace(kind, s, fs, i, a, between) ==
    IF i > Len(fs)
    THEN {s}
    ELSE UNION { UNION { TurnRace(kind, u, fs, i + 1, a, TRUE) :
                             u \in {TurnStep(kind, t, fs[i], a)} } :
                     t \in IF between THEN TurnOpens(s) ELSE {s} }

\* ------------------------------------------------------------------ actions

\* runParallelProcessing from "runNext()" to the end of the promise
\* executor: the first admissions, then the first checkCompletion(), which
\* resolves at once or arms the 100 ms timer.
Start ==
    /\ pcMain = "created"
    /\ LET r == RunNext(processingComplete, queue, activeTasks, pc)
       IN  /\ queue' = r.queue
           /\ activeTasks' = r.activeTasks
           /\ pc' = r.pc
           /\ processingComplete' = r.processingComplete
           /\ resolved' = r.processingComplete
    /\ pcMain' = "running"
    /\ UNCHANGED << files, parallelCount, dryRun, beh, status, processedCount,
                    reports, fsys, madeDirs, encoderRuns, ops, steps, call, cli >>

\* The timer callback checkCompletion.
CheckCompletion ==
    /\ pcMain = "running"
    /\ ~resolved
    /\ ~SpawnErrorPending
    /\ resolved' = processingComplete
    /\ UNCHANGED << files, parallelCount, dryRun, beh, pcMain, queue, activeTasks,
                    processingComplete, pc, status, processedCount, reports,
                    fsys, madeDirs, encoderRuns, ops, steps, call, cli >>

\* The end of processFile for f with status st (the finally block calls
\* update), then the .catch and .finally handlers of the task runner.
\* O: the encoders that created their output since convertToWebm looked at
\* the filesystem, while f was still in the pool.
Complete(f, st, O) ==
    LET t  == TaskFinally(f, processingComplete, queue, activeTasks, Opened(pc, O))
        rs == ReportsFor(f, st, processedCount)
    IN  /\ status' = [status EXCEPT ![f] = st]
        /\ reports' = reports \o rs
        /\ processedCount' = rs[Len(rs)].count
        /\ queue' = t.queue
        /\ activeTasks' = t.activeTasks
        /\ pc' = t.pc
        /\ processingComplete' = t.processingComplete

\* ffprobe for f has ended (in whatever way): getMediaInfo returns,
\* determineCrf runs, convertToWebm runs up to its await or its return.
\* When it returns, the encoders of other files may create their outputs
\* before the task of f has left the pool.
ProbeClose(f) ==
    /\ pcMain = "running"
    /\ ~SpawnErrorPending
    /\ pc[f] = "probing"
    /\ beh[f].probe.result # "hang"
    /\ LET mediaInfo == getMediaInfo(beh[f].probe)
           crf       == determineCrf(mediaInfo)
           entry     == ConvertEntry(f, dryRun, fsys)
           chk       == IF entry.checked
                        THEN {MkOp(f, "check_output", OutputFilePath(f),
                                   OutputFilePath(f) \in fsys, activeTasks)}
                        ELSE {}
       IN  IF beh[f].fault = "try" \/ getMediaInfoThrows(beh[f].probe)
           THEN \E O \in SUBSET RunningEncoders(pc, activeTasks) :
                /\ Complete(f, "error_task_internal", O)
                /\ fsys' = fsys \cup Outputs(O)
                /\ ops' = ops \cup Creates(O, activeTasks)
                /\ UNCHANGED << madeDirs, encoderRuns >>
           ELSE IF entry.ret = "spawn"
           THEN /\ pc' = [pc EXCEPT ![f] = "encoding"]
                /\ encoderRuns' = encoderRuns \cup {[file |-> f, crf |-> crf]}
                /\ ops' = ops \cup chk
                /\ UNCHANGED << queue, activeTasks, processingComplete, status,
                                processedCount, reports, fsys, madeDirs >>
           ELSE \E O \in SUBSET RunningEncoders(pc, activeTasks) :
                /\ Complete(f, entry.ret, O)
                /\ fsys' = fsys \cup Outputs(O)
                /\ ops' = ops \cup chk \cup Creates(O, activeTasks)
                /\ UNCHANGED << madeDirs, encoderRuns >>
    /\ UNCHANGED << files, parallelCount, dryRun, beh, pcMain, resolved, steps, call, cli >>

\* The ffmpeg process of f creates (or truncates) its output file.  The
\* process runs beside the event loop: nothing in the program holds it back.
EncodeOpen(f) ==
    /\ pcMain = "running"
    /\ pc[f] = "encoding"
    /\ EncoderCreates(beh[f])
    /\ pc' = [pc EXCEPT ![f] = "writing"]
    /\ fsys' = fsys \cup {OutputFilePath(f)}
    /\ ops' = ops \cup {MkOp(f, "create", OutputFilePath(f), TRUE, activeTasks)}
    /\ UNCHANGED << files, parallelCount, dryRun, beh, pcMain, queue, activeTasks,
                    processingComplete, resolved, status, processedCount, reports,
                    madeDirs, encoderRuns, steps, call, cli >>

\* The close (or error) event of the ffmpeg process of f: the rest of
\* convertToWebm, then the end of processFile.  The exit code is the
\* behaviour's; an output that another pipeline unlinked meanwhile stays
\* unlinked (the encoder keeps writing to the removed file).  The encoders
\* of other files may create their outputs after convertToWebm has looked
\* at the filesystem and before the task of f has left the pool.
EncodeClose(f) ==
    /\ pcMain = "running"
    /\ ~SpawnErrorPending
    /\ \/ pc[f] = "writing"
       \/ pc[f] = "encoding" /\ ~EncoderCreates(beh[f])
    /\ beh[f].enc # "hang"
    /\ LET r == AfterEncode(f, beh[f], fsys, madeDirs, activeTasks)
       IN  \E O \in SUBSET RunningEncoders(pc, activeTasks) :
           /\ Complete(f, r.status, O)
           /\ fsys' = r.fsys \cup Outputs(O)
           /\ madeDirs' = r.madeDirs
           /\ ops' = ops \cup r.ops \cup Creates(O, activeTasks)
           /\ steps' = [steps EXCEPT ![f] = r.steps]
    /\ UNCHANGED << files, parallelCount, dryRun, beh, pcMain, resolved, encoderRuns,
                    call, cli >>

\* The spawn errors of the turn before are delivered, and the microtasks
\* after them run; no other callback runs before that.  The pipelines of an
\* ffmpeg that failed are one await ahead of those of an ffprobe that
\* failed: first their catch blocks; then their reports and the heads of
\* convertToWebm of the others; then their .catch handlers and the reports
\* of those others whose convertToWebm returned; then their .finally
\* handlers and the .catch handlers of the others; then the .finally
\* handlers of the others.  The catch blocks and the heads of convertToWebm
\* read the filesystem and the .finally handlers change the pool: between
\* any two of them a running encoder may create its output.
SpawnErrorTurn ==
    /\ pcMain = "running"
    /\ SpawnErrorPending
    /\ LET a   == activeTasks
           enc == SelectSeq(a, LAMBDA f : EncodeErrorPending(pc, f))
           prb == SelectSeq(a, LAMBDA f : ProbeErrorPending(pc, f))
       IN  \E s1 \in TurnRace("cleanup", TurnState, enc, 1, a, FALSE) :
           \E s2 \in {TurnEach("report", s1, enc, 1, a)} :
           \E s3 \in TurnRace("convert", s2, prb, 1, a, enc # <<>>) :
           \E ret \in {SelectSeq(prb, LAMBDA f : s3.pc[f] = "probing")} :
           \E c3 \in {TurnEach("catch", s3, enc, 1, a)} :
           \E s4 \in {TurnEach("report", c3, ret, 1, a)} :
           \E s5 \in TurnRace("finally", s4, enc, 1, a, TRUE) :
           \E c5 \in {TurnEach("catch", s5, ret, 1, a)} :
           \E s \in TurnRace("finally", c5, ret, 1, a, TRUE) :
               /\ queue' = s.queue
               /\ activeTasks' = s.activeTasks
               /\ pc' = s.pc
               /\ processingComplete' = s.processingComplete
               /\ status' = s.status
               /\ processedCount' = s.processedCount
               /\ reports' = s.reports
               /\ fsys' = s.fsys
               /\ madeDirs' = s.madeDirs
               /\ encoderRuns' = s.encoderRuns
               /\ ops' = s.ops
               /\ steps' = s.steps
    /\ UNCHANGED << files, parallelCount, dryRun, beh, pcMain, resolved, call, cli >>

Next ==
    \/ Start
    \/ SpawnErrorTurn
    \/ CheckCompletion
    \/ \E f \in Range(files) : ProbeClose(f)
    \/ \E f \in Range(files) : EncodeOpen(f)
    \/ \E f \in Range(files) : EncodeClose(f)

Spec ==
    Init /\ [][Next]_vars

\* Every external process ends and the timer fires: no enabled step is
\* postponed for ever.
FairSpec ==
    Spec /\ WF_vars(Next)

\* The same program with a console whose writes can throw.
InitFault ==
    InitWith(Behaviours \cup FaultyBehaviours)

FaultSpec ==
    InitFault /\ [][Next]_vars

\* The same program with external processes that may never end; every
\* process that does end, and the timer, is not postponed for ever.
InitHang ==
    InitWith(HangBehaviours)

HangSpec ==
    InitHang /\ [][Next]_vars /\ WF_vars(Next)

\* The external process f waits for has been spawned and never ends.
Hung(f) ==
    \/ pc[f] = "probing" /\ beh[f].probe.result = "hang"
    \/ pc[f] = "encoding" /\ beh[f].enc = "hang"

\* The same program when an exception can escape the try block of
\* processFile, with the behaviours whose cleanup and quarantine succeed.
ThrowBehaviours ==
    { b \in Behaviours : b.move = "ok" /\ ~b.unlinkOutFails }
    \cup { b \in FaultyBehaviours : b.fault = "try" }

InitThrow ==
    InitWith(ThrowBehaviours)

ThrowSpec ==
    InitThrow /\ [][Next]_vars

\* ------------------------------------ getMediaInfo and determineCrf alone

\* What ffprobe can print for the width, the height and the bit rate of the
\* first video stream.
WidthValues ==
    { RawMissing, RawText, RawNum(-1), RawNum(0), RawNum(1920), RawStr(640) }

HeightValues ==
    { RawMissing, RawText, RawNum(-1), RawNum(0), RawNum(480), RawNum(719),
      RawNum(720), RawNum(1079), RawNum(1080), RawStr(2160) }

BitRateValues ==
    { RawMissing, RawText, RawNum(0), RawStr(0), RawStr(7999999), RawStr(8000000),
      RawStr(8000001), RawStr(25000000) }

\* The ways a run of ffprobe can end.
ProbeOutcomes ==
    { ProbeFails(r) : r \in {"spawn_error", "command_error", "unparsable", "no_stream"} }
    \cup { MkProbe("stream", w, h, br) :
              w \in WidthValues, h \in HeightValues, br \in BitRateValues }

\* No batch: runParallelProcessing is not called.
NoBatch ==
    /\ files = <<>>
    /\ parallelCount = 1
    /\ dryRun = FALSE
    /\ beh = <<>>
    /\ pcMain = "created"
    /\ queue = <<>>
    /\ activeTasks = <<>>
    /\ processingComplete = FALSE
    /\ resolved = FALSE
    /\ pc = <<>>
    /\ status = <<>>
    /\ processedCount = 0
    /\ reports = <<>>
    /\ fsys = {}
    /\ madeDirs = {}
    /\ encoderRuns = {}
    /\ ops = {}
    /\ steps = <<>>
    /\ cli = NoCli

CallInit ==
    /\ NoBatch
    /\ \E probe \in ProbeOutcomes :
          call = [pc |-> "probing", probe |-> probe, mediaInfo |-> NullInfo,
                  crf |-> 0, again |-> 0]

\* ffprobe has ended: getMediaInfo returns or throws.
CallProbe ==
    /\ call.pc = "probing"
    /\ call' = IF getMediaInfoThrows(call.probe)
               THEN [call EXCEPT !.pc = "thrown"]
               ELSE [call EXCEPT !.pc = "probed", !.mediaInfo = getMediaInfo(call.probe)]
    /\ UNCHANGED << files, parallelCount, dryRun, beh, pcMain, queue, activeTasks,
                    processingComplete, resolved, pc, status, processedCount,
                    reports, fsys, madeDirs, encoderRuns, ops, steps, cli >>

\* determineCrf(mediaInfo)
CallDecide ==
    /\ call.pc = "probed"
    /\ call' = [call EXCEPT !.pc = "decided", !.crf = determineCrf(call.mediaInfo)]
    /\ UNCHANGED << files, parallelCount, dryRun, beh, pcMain, queue, activeTasks,
                    processingComplete, resolved, pc, status, processedCount,
                    reports, fsys, madeDirs, encoderRuns, ops, steps, cli >>

\* determineCrf(mediaInfo) once more, with the same summary.
CallDecideAgain ==
    /\ call.pc = "decided"
    /\ call' = [call EXCEPT !.pc = "again", !.again = determineCrf(call.mediaInfo)]
    /\ UNCHANGED << files, parallelCount, dryRun, beh, pcMain, queue, activeTasks,
                    processingComplete, resolved, pc, status, processedCount,
                    reports, fsys, madeDirs, encoderRuns, ops, steps, cli >>

CallNext ==
    \/ CallProbe
    \/ CallDecide
    \/ CallDecideAgain

CallSpec ==
    CallInit /\ [][CallNext]_vars

\* The summaries getMediaInfo can return for ProbeOutcomes.
Summaries ==
    { getMediaInfo(probe) : probe \in ProbeOutcomes }

\* ------------------------------------------------- the sequential walker

\* processDirectory of directoryProcessor.js, called with a progress object
\* and the total.  files is the order in which the walk meets the files;
\* queue holds the files the loop has not reached, processedCount is
\* progress.count and reports holds the final status lines written.

\* The value of the expression convertToWebm(...): convertToWebm is an
\* async function and the call is not awaited, so the value is a promise
\* whatever the conversion will return.
ConvertCallValue(ret) ==
    "promise"

\* The glyph chosen for the final status line.
StatusIndicator(result) ==
    IF result = "converted" THEN "check"
    ELSE IF result = "skipped_exists" THEN "dash"
    ELSE IF result = "skipped_dry_run" THEN "DRY"
    ELSE "cross"

\* The files whose call of convertToWebm has not returned.
Converting ==
    SelectSeq(files, LAMBDA f : pc[f] \in {"encoding", "writing"})

\* The loop reaches its next file (count it, write the "Processing" line,
\* spawn ffprobe) or, when there is none, processDirectory resolves.
WalkAdvance(p) ==
    IF queue = <<>>
    THEN /\ pc' = p
         /\ resolved' = TRUE
         /\ UNCHANGED << queue, processedCount >>
    ELSE /\ pc' = [p EXCEPT ![Head(queue)] = "probing"]
         /\ queue' = Tail(queue)
         /\ processedCount' = processedCount + 1
         /\ UNCHANGED resolved

\* A process spawned in the turn before could not be spawned and its
\* error is not yet delivered.
WalkSpawnErrorPending ==
    \E f \in Range(files) : ProbeErrorPending(pc, f) \/ EncodeErrorPending(pc, f)

\* The call of processDirectory up to its first await.
WalkStart ==
    /\ pcMain = "created"
    /\ pcMain' = "walking"
    /\ WalkAdvance(pc)
    /\ UNCHANGED << files, parallelCount, dryRun, beh, activeTasks,
                    processingComplete, status, reports, fsys, madeDirs,
                    encoderRuns, ops, steps, call, cli >>

\* ffprobe for f has ended: getMediaInfo returns, determineCrf runs,
\* convertToWebm runs up to its await or its return, the final status line
\* is written from the value of the call (and once more, below a newline,
\* when the value is none of the three statuses of a conversion or a
\* skip), and the loop goes on.  The error
\* of a process that could not be spawned is delivered before any other
\* callback runs, that of ffmpeg one await before that of ffprobe.
WalkProbeClose(f) ==
    /\ pcMain = "walking"
    /\ pc[f] = "probing"
    /\ IF ProbeErrorPending(pc, f)
       THEN \A g \in Range(files) : ~EncodeErrorPending(pc, g)
       ELSE ~WalkSpawnErrorPending
    /\ LET mediaInfo == getMediaInfo(beh[f].probe)
           crf       == determineCrf(mediaInfo)
           entry     == ConvertEntry(f, dryRun, fsys)
           result    == ConvertCallValue(entry.ret)
       IN  /\ IF entry.ret = "spawn"
              THEN /\ WalkAdvance([pc EXCEPT ![f] = "encoding"])
                   /\ encoderRuns' = encoderRuns \cup {[file |-> f, crf |-> crf]}
                   /\ UNCHANGED status
              ELSE /\ WalkAdvance([pc EXCEPT ![f] = "done"])
                   /\ status' = [status EXCEPT ![f] = entry.ret]
                   /\ UNCHANGED encoderRuns
           /\ reports' =
                 LET line == MkReport(f, StatusIndicator(result), processedCount)
                 IN  IF result \in {"converted", "skipped_exists", "skipped_dry_run"}
                     THEN Append(reports, line)
                     ELSE reports \o <<line, line>>
    /\ UNCHANGED << files, parallelCount, dryRun, beh, pcMain, activeTasks,
                    processingComplete, fsys, madeDirs, ops, steps, call, cli >>

\* The ffmpeg process of f creates (or truncates) its output file.
WalkEncodeOpen(f) ==
    /\ pcMain = "walking"
    /\ pc[f] = "encoding"
    /\ EncoderCreates(beh[f])
    /\ pc' = [pc EXCEPT ![f] = "writing"]
    /\ fsys' = fsys \cup {OutputFilePath(f)}
    /\ UNCHANGED << files, parallelCount, dryRun, beh, pcMain, queue, activeTasks,
                    processingComplete, resolved, status, processedCount, reports,
                    madeDirs, encoderRuns, ops, steps, call, cli >>

\* The close (or error) event of the ffmpeg process of f: the rest of
\* convertToWebm, whose promise nothing waits for.
WalkEncodeClose(f) ==
    /\ pcMain = "walking"
    /\ EncodeErrorPending(pc, f) \/ ~WalkSpawnErrorPending
    /\ \/ pc[f] = "writing"
       \/ pc[f] = "encoding" /\ ~EncoderCreates(beh[f])
    /\ LET r == AfterEncode(f, beh[f], fsys, madeDirs, Converting)
       IN  /\ status' = [status EXCEPT ![f] = r.status]
           /\ pc' = [pc EXCEPT ![f] = "done"]
           /\ fsys' = r.fsys
           /\ madeDirs' = r.madeDirs
           /\ steps' = [steps EXCEPT ![f] = r.steps]
    /\ UNCHANGED << files, parallelCount, dryRun, beh, pcMain, queue, activeTasks,
                    processingComplete, resolved, processedCount, reports,
                    encoderRuns, ops, call, cli >>

WalkNext ==
    \/ WalkStart
    \/ \E f \in Range(files) : WalkProbeClose(f)
    \/ \E f \in Range(files) : WalkEncodeOpen(f)
    \/ \E f \in Range(files) : WalkEncodeClose(f)

WalkSpec ==
    Init /\ [][WalkNext]_vars

\* ---------------------------------------------------------------- discovery

\* A directory entry: the Dirent of readdirSync with what lies behind it.
\* The name is kept as the part before the extension and the extension
\* with its dot; a name such as ".webm" has an empty base.
MkName(base, ext) ==
    [base |-> base, ext |-> ext]

MkLeaf(kind, base, ext) ==
    [kind |-> kind, name |-> MkName(base, ext), readable |-> TRUE, children |-> <<>>]

MkDir(base, ext, readable, children) ==
    [kind |-> "dir", name |-> MkName(base, ext), readable |-> readable,
     children |-> children]

\* path.extname(name): the text from the last dot, "" for a name without
\* a dot and for a name whose only dot is its first character.
ExtName(name) ==
    IF name.base = "" THEN "" ELSE name.ext

\* String.prototype.toLowerCase with the case kept.
ToLowerCaseNone(s) ==
    s

\* String.prototype.toLowerCase on the extensions of the model.
ToLowerCase(s) ==
    CASE s = ".WEBM" -> ".webm"
      [] s = ".Webm" -> ".webm"
      [] s = ".MKV"  -> ".mkv"
      [] OTHER       -> s

\* Dirent.isDirectory() and Dirent.isFile(): both false for a symbolic
\* link (whatever it points to), a FIFO, a socket or a device.
IsDirectory(entry) ==
    entry.kind = "dir"

IsFile(entry) ==
    entry.kind = "file"

\* fs.readdirSync(dirPath, {withFileTypes: true}): the entries, or an
\* exception for a directory that cannot be read.
ReaddirSync(dir) ==
    [threw |-> ~dir.readable, entries |-> dir.children]

RECURSIVE findFilesToProcess(_, _)
RECURSIVE ScanEntries(_, _, _, _)
\* The for loop of findFilesToProcess from entry i on, files being the list
\* so far.
ScanEntries(dirPath, entries, i, files_) ==
    IF i > Len(entries)
    THEN files_
    ELSE LET entry    == entries[i]
             fullPath == Append(dirPath, entry.name)
         IN  IF IsDirectory(entry)
             THEN ScanEntries(dirPath, entries, i + 1,
                              files_ \o findFilesToProcess(fullPath, entry))
             ELSE IF IsFile(entry) /\ ToLowerCase(ExtName(entry.name)) # ".webm"
             THEN ScanEntries(dirPath, entries, i + 1, Append(files_, fullPath))
             ELSE ScanEntries(dirPath, entries, i + 1, files_)

\* findFilesToProcess(dirPath), dir being the directory at dirPath; the
\* catch block turns the exception of readdirSync into the empty list.
findFilesToProcess(dirPath, dir) ==
    LET listing == ReaddirSync(dir)
    IN  IF listing.threw
        THEN <<>>
        ELSE ScanEntries(dirPath, listing.entries, 1, <<>>)

\* The lists of at most two entries of pool with distinct names.
Listings(pool) ==
    {<<>>} \cup { <<x>> : x \in pool }
           \cup { <<pr[1], pr[2]>> : pr \in { q \in pool \X pool : q[1].name # q[2].name } }

LeafEntries ==
    { MkLeaf("file", "a", ".mp4"), MkLeaf("file", "b", ".MKV"),
      MkLeaf("file", "c", ".webm"), MkLeaf("file", "d", ".WEBM"),
      MkLeaf("file", "e", ".Webm"), MkLeaf("file", "", ".webm"),
      MkLeaf("file", "README", ""),
      MkLeaf("symlink", "l", ".mp4"), MkLeaf("special", "p", ".mp4") }

DeepDirs ==
    { MkDir("deep", "", r, c) :
        r \in BOOLEAN,
        c \in { <<>>, <<MkLeaf("file", "a", ".mp4")>>, <<MkLeaf("file", "d", ".WEBM")>> } }

SubDirs ==
    { MkDir(n[1], n[2], r, c) :
        n \in { <<"sub", "">>, <<"old", ".webm">> },
        r \in BOOLEAN,
        c \in Listings({ MkLeaf("file", "a", ".mp4"), MkLeaf("file", "d", ".WEBM") }
                       \cup DeepDirs) }

\* The trees scanned: the root with at most two entries, directories
\* nested two deep below it.
Trees ==
    { MkDir("root", "", r, c) : r \in BOOLEAN, c \in Listings(LeafEntries \cup SubDirs) }

ScanInit ==
    /\ NoBatch
    /\ \E root \in Trees :
          call = [pc |-> "scanning", root |-> root, threw |-> FALSE, files |-> <<>>]

\* findFilesToProcess(targetDirectory)
Scan ==
    /\ call.pc = "scanning"
    /\ call' = [call EXCEPT !.pc = "scanned",
                            !.files = findFilesToProcess(<<>>, call.root)]
    /\ UNCHANGED << files, parallelCount, dryRun, beh, pcMain, queue, activeTasks,
                    processingComplete, resolved, pc, status, processedCount,
                    reports, fsys, madeDirs, encoderRuns, ops, steps, cli >>

ScanSpec ==
    ScanInit /\ [][Scan]_vars

\* ------------------------------------------------- the command line program

\* The program of part_001 around the batch.  cli holds
\*   pc        "start", "validated", "batch", "exited"
\*   parallel  argv.parallel as minimist delivers it
\*   target    what lies at the target path: "dir", "file", "missing"
\*   ffmpeg, ffprobe  how `<command> -version` ends: "ok", "missing", "nonzero"
\*   exitCode  the exit code once pc = "exited"
\*   run       1 for the first run of the program, 2 for the run after it
\*   before    the filesystem when this run began

\* The values of --parallel: numbers within the bound, a number followed by
\* a letter, 0, a negative number, a word.
ParallelArgs ==
    { RawNum(n) : n \in 1 .. MaxParallel }
    \cup { RawPrefix(MaxParallel), RawNum(0), RawNum(-1), RawText }

CommandOutcomes ==
    {"ok", "missing", "nonzero"}

\* checkCommand(command)
CheckCommand(outcome) ==
    outcome = "ok"

\* The checks before the main function, in their order: one of them calls
\* process.exit(1).
SetupFails(c) ==
    LET parsed == ParseInt(c.parallel)
    IN  IF parsed.nan \/ parsed.val < 1 THEN TRUE
        ELSE IF c.target = "missing" THEN TRUE
        ELSE IF c.target # "dir" THEN TRUE
        ELSE ~CheckCommand(c.ffmpeg) \/ ~CheckCommand(c.ffprobe)

\* The command lines and environments: valid ones, and ones with one thing
\* wrong.
Setups ==
    { c \in [parallel : ParallelArgs, target : {"dir", "file", "missing"},
             ffmpeg : CommandOutcomes, ffprobe : CommandOutcomes] :
        Cardinality({ i \in 1 .. 4 :
                        \/ i = 1 /\ c.parallel \notin { RawNum(n) : n \in 1 .. MaxParallel }
                        \/ i = 2 /\ c.target # "dir"
                        \/ i = 3 /\ c.ffmpeg # "ok"
                        \/ i = 4 /\ c.ffprobe # "ok" }) <= 1 }

\* The behaviours drawn for the program as a whole.
MainBehaviours ==
    { b \in Behaviours : ~b.pre /\ ~b.unlinkOutFails /\ b.enc # "spawn_error" }

\* The exit code when the main function ends without process.exit: the
\* statuses of the files play no part.
BatchExitCodeFailures(st) ==
    IF \E f \in DOMAIN st : st[f] \notin {"converted", "skipped_exists", "skipped_dry_run"}
    THEN 1
    ELSE 0

BatchExitCode(st) ==
    0

\* findFilesToProcess over the paths that exist: the files of the tree
\* that are not .webm, in the order of the listing.
Discover(fs) ==
    SelectSeq(TreeOrder, LAMBDA p : p \in fs /\ p.ext # "webm")

InitMain ==
    /\ files \in FileLists
    /\ parallelCount = 1
    /\ dryRun \in BOOLEAN
    /\ beh \in [Range(files) -> BehavioursFor(MainBehaviours, dryRun)]
    /\ pcMain = "setup"
    /\ queue = files
    /\ activeTasks = <<>>
    /\ processingComplete = FALSE
    /\ resolved = FALSE
    /\ pc = [f \in Range(files) |-> "queued"]
    /\ status = [f \in Range(files) |-> "none"]
    /\ processedCount = 0
    /\ reports = <<>>
    /\ fsys = InitialFs(files, beh)
    /\ madeDirs = {}
    /\ encoderRuns = {}
    /\ ops = {}
    /\ steps = [f \in Range(files) |-> <<>>]
    /\ call = NoCall
    /\ \E c \in Setups, help \in BOOLEAN :
          cli = [pc |-> "start", help |-> help,
                 parallel |-> c.parallel, target |-> c.target,
                 ffmpeg |-> c.ffmpeg, ffprobe |-> c.ffprobe, exitCode |-> 0,
                 run |-> 1, before |-> [fsys |-> fsys, madeDirs |-> madeDirs]]

\* The program from its first statement to the call of the main function:
\* argument parsing, the help text (with --help or -h the program prints
\* it and exits with code 0 before it looks at anything else) and the
\* checks.
MainSetup ==
    /\ cli.pc = "start"
    /\ LET parsed == ParseInt(cli.parallel)
       IN  parallelCount' = IF cli.help \/ parsed.nan THEN parallelCount
                            ELSE parsed.val
    /\ cli' = IF cli.help
              THEN [cli EXCEPT !.pc = "exited", !.exitCode = 0]
              ELSE IF SetupFails(cli)
              THEN [cli EXCEPT !.pc = "exited", !.exitCode = 1]
              ELSE [cli EXCEPT !.pc = "validated"]
    /\ UNCHANGED << files, dryRun, beh, pcMain, queue, activeTasks,
                    processingComplete, resolved, pc, status, processedCount,
                    reports, fsys, madeDirs, encoderRuns, ops, steps, call >>

\* The main function up to the call of runParallelProcessing: the scan,
\* and the exit when nothing is found outside a dry run.
MainScan ==
    /\ cli.pc = "validated"
    /\ LET filesToProcess == Discover(fsys)
       IN  /\ files' = filesToProcess
           /\ queue' = filesToProcess
           /\ pc' = [f \in Range(filesToProcess) |-> "queued"]
           /\ status' = [f \in Range(filesToProcess) |-> "none"]
           /\ steps' = [f \in Range(filesToProcess) |-> <<>>]
           /\ IF Len(filesToProcess) = 0 /\ ~dryRun
              THEN /\ cli' = [cli EXCEPT !.pc = "exited", !.exitCode = 0]
                   /\ UNCHANGED pcMain
              ELSE /\ cli' = [cli EXCEPT !.pc = "batch"]
                   /\ pcMain' = "created"
    /\ UNCHANGED << parallelCount, dryRun, beh, activeTasks, processingComplete,
                    resolved, processedCount, reports, fsys, madeDirs,
                    encoderRuns, ops, call >>

\* The main function after the await: it logs and returns, and the
\* process ends when nothing is left to wait for.
MainExit ==
    /\ cli.pc = "batch"
    /\ resolved
    /\ cli' = [cli EXCEPT !.pc = "exited", !.exitCode = BatchExitCode(status)]
    /\ UNCHANGED << files, parallelCount, dryRun, beh, pcMain, queue, activeTasks,
                    processingComplete, resolved, pc, status, processedCount,
                    reports, fsys, madeDirs, encoderRuns, ops, steps, call >>

\* The program is run once more with the same command line on the tree as
\* the first run left it, after a first run that was no dry run and that
\* produced an output.
MainAgain ==
    /\ cli.pc = "exited"
    /\ cli.run = 1
    /\ cli.exitCode = 0
    /\ ~dryRun
    /\ \E f \in Range(files) : status[f] \in {"converted", "error_deleting"}
    /\ cli' = [cli EXCEPT !.pc = "start", !.run = 2,
                          !.before = [fsys |-> fsys, madeDirs |-> madeDirs]]
    /\ pcMain' = "setup"
    /\ processingComplete' = FALSE
    /\ resolved' = FALSE
    /\ processedCount' = 0
    /\ reports' = <<>>
    /\ encoderRuns' = {}
    /\ ops' = {}
    /\ UNCHANGED << files, parallelCount, dryRun, beh, queue, activeTasks, pc,
                    status, fsys, madeDirs, steps, call >>

MainNext ==
    \/ MainSetup
    \/ MainScan
    \/ MainExit
    \/ MainAgain
    \/ Start
    \/ CheckCompletion
    \/ \E f \in Range(files) : ProbeClose(f)
    \/ \E f \in Range(files) : EncodeOpen(f)
    \/ \E f \in Range(files) : EncodeClose(f)

MainSpec ==
    InitMain /\ [][MainNext]_vars

\* --------------------------------------------------------------- reference

\* The statuses of a batch processed strictly one file after the other
\* (parallelCount = 1), starting from filesystem fs.
RECURSIVE SequentialStatuses(_, _)
SequentialStatuses(fl, fs) ==
    IF fl = <<>> THEN <<>>
    ELSE LET f     == Head(fl)
             entry == ConvertEntry(f, dryRun, fs)
             fs1   == IF EncoderCreates(beh[f]) THEN fs \cup {OutputFilePath(f)} ELSE fs
             r     == AfterEncode(f, beh[f], fs1, {}, <<f>>)
         IN  IF beh[f].fault = "try"
             THEN <<"error_task_internal">> \o SequentialStatuses(Tail(fl), fs)
             ELSE IF entry.ret = "spawn"
             THEN <<r.status>> \o SequentialStatuses(Tail(fl), r.fsys)
             ELSE <<entry.ret>> \o SequentialStatuses(Tail(fl), fs)

Outcomes ==
    { "converted", "skipped_exists", "skipped_dry_run", "error_converting",
      "error_deleting", "error_task_internal", "error_runner_internal" }

\* The multiset of the statuses in a sequence: how often each occurs.
OutcomeCounts(sts) ==
    [o \in Outcomes |-> Cardinality({ i \in 1 .. Len(sts) : sts[i] = o })]

\* The statuses of the finished batch, in list order.
FinalStatuses ==
    [i \in 1 .. Len(files) |-> status[files[i]]]

\* The number of calls of update made for file f.
ReportCount(f) ==
    Cardinality({ i \in 1 .. Len(reports) : reports[i].file = f })

EncodedFiles ==
    { r.file : r \in encoderRuns }

\* ------------------------------------------------------------------ claims

\* C1: in every reachable state the number of in-flight pipelines
\* (activeTasks) is at most the concurrency limit.
C1_ActiveWithinLimit ==
    Len(activeTasks) <= parallelCount

\* A completion has refilled the pool to the limit while files are queued.
C1_Witness ==
    /\ Len(activeTasks) = parallelCount
    /\ Len(queue) > 0
    /\ processedCount > 0

\* C2: the promise is resolved only when the queue is empty, no task is in
\* flight and every file's pipeline has ended with an outcome.
C2_ResolvedOnlyWhenDrained ==
    resolved =>
        /\ queue = <<>>
        /\ activeTasks = <<>>
        /\ \A f \in Range(files) : pc[f] = "done" /\ status[f] # "none"

C2_Witness ==
    /\ resolved
    /\ Len(files) > parallelCount

\* C3: if every external process ends, the promise is eventually resolved,
\* for every file list (the empty one included) and every limit.
C3_EventuallyResolved ==
    <>resolved

C3_Witness ==
    /\ resolved
    /\ Len(files) > parallelCount
    /\ \E f \in Range(files) : status[f] = "error_converting"

\* C4: for every file update is called exactly once, after its pipeline
\* has ended, on every path, the task runner's catch handler included.
C4_ReportedExactlyOnce ==
    \A f \in Range(files) :
        ReportCount(f) = (IF pc[f] = "done" THEN 1 ELSE 0)

\* C5: each report shows a count one greater than the report before; the
\* count reaches the number of files once, when the batch completes.
C5_CounterStrict ==
    /\ \A i \in 1 .. Len(reports) : reports[i].count = i
    /\ processedCount = Len(reports)
    /\ processedCount <= Len(files)
    /\ pcMain = "running" => (processingComplete <=> processedCount = Len(files))

C5_Witness ==
    /\ processedCount = Len(files)
    /\ Len(files) > parallelCount
    /\ parallelCount > 1

\* C6: the multiset of outcomes of the finished batch is the same for every
\* limit and every interleaving: it is the one of the sequential run.
C6_SameOutcomeMultiset ==
    resolved =>
        OutcomeCounts(FinalStatuses) = OutcomeCounts(SequentialStatuses(files, InitialFs(files, beh)))

\* C7: no pipeline checks, writes, deletes or moves a path that is the
\* source or the output of another pipeline in flight.
C7_NoSharedPath ==
    \A e \in ops : ~e.shared

\* C8: with dryRun set every outcome is skipped_dry_run, ffmpeg is never
\* invoked and the filesystem is as before the batch in every state; the
\* output path is not even checked.
C8_DryRunTouchesNothing ==
    dryRun =>
        /\ fsys = InitialFs(files, beh)
        /\ madeDirs = {}
        /\ encoderRuns = {}
        /\ ops = {}
        /\ \A f \in Range(files) :
              /\ pc[f] \in {"queued", "probing", "done"}
              /\ status[f] = (IF pc[f] = "done" THEN "skipped_dry_run" ELSE "none")

C8_Witness ==
    /\ dryRun
    /\ resolved
    /\ Len(files) > parallelCount
    /\ \E f \in Range(files) : OutputFilePath(f) \in fsys

\* C9: without dryRun, a call that finds the output path existing returns
\* skipped_exists, does not invoke ffmpeg and performs no other filesystem
\* operation: its source stays where it is.
C9_ExistingOutputSkipped ==
    \A e \in ops :
        (e.op = "check_output" /\ e.ok) =>
            /\ ~dryRun
            /\ status[e.by] = "skipped_exists"
            /\ pc[e.by] = "done"
            /\ e.by \notin EncodedFiles
            /\ e.by \in fsys
            /\ \A e2 \in ops : e2.by = e.by => e2 = e

C9_Witness ==
    \E e \in ops : e.op = "check_output" /\ e.ok /\ ~beh[e.by].pre

\* C10: when ffmpeg exits with code 0 the call ends either converted, with
\* the source gone and the output present, or error_deleting, with source
\* and output present and the source not quarantined.
C10_AfterExitZero ==
    [][\A f \in Range(files) :
          (pc[f] = "writing" /\ beh[f].enc = "ok" /\ pc'[f] = "done") =>
              \/ /\ status'[f] = "converted"
                 /\ f \notin fsys'
                 /\ OutputFilePath(f) \in fsys'
              \/ /\ status'[f] = "error_deleting"
                 /\ f \in fsys'
                 /\ OutputFilePath(f) \in fsys'
                 /\ FailedFilePath(f) \notin fsys']_vars

\* C11 as stated: when ffmpeg exits nonzero, is killed or cannot be
\* spawned, the call
\* checks for the output and removes it if it is there, then quarantines the
\* source (also when the removal failed), then returns error_converting;
\* at the return the output path does not exist unless its removal failed,
\* and the source is not at its path unless the move failed.
C11_FailureSequence ==
    [][\A f \in Range(files) :
          (pc[f] \in {"encoding", "writing"} /\ pc'[f] = "done" /\ beh[f].enc # "ok") =>
              LET s        == steps'[f]
                  out      == OutputFilePath(f)
                  At(name) == { i \in 1 .. Len(s) : s[i] = name }
              IN  /\ status'[f] = "error_converting"
                  /\ s[1] = "check_partial"
                  /\ s[Len(s)] = "return"
                  /\ (out \in fsys <=> At("unlink_output") # {})
                  /\ At("mkdir") # {}
                  /\ \A i \in At("unlink_output") :
                        \A j \in At("mkdir") \cup At("check_source") \cup At("rename") : i < j
                  /\ (out \notin fsys' \/ beh[f].unlinkOutFails)
                  /\ (f \notin fsys' \/ beh[f].move # "ok")]_vars

\* C12 as stated: a failure to spawn ffmpeg and a nonzero exit of ffmpeg end
\* with different statuses.
C12_SpawnDistinctFromExit ==
    \A f, g \in Range(files) :
        ( /\ pc[f] = "done" /\ f \in EncodedFiles /\ beh[f].enc = "spawn_error"
          /\ pc[g] = "done" /\ g \in EncodedFiles
          /\ beh[g].enc \in {"fail_partial", "fail_early"} )
        => status[f] # status[g]

\* C12, amended: a nonzero exit and a failure to spawn ffmpeg both end with
\* error_converting; a failed deletion of the source after exit 0 ends with
\* error_deleting; an exception that escapes the try block of processFile
\* ends with error_task_internal; no other class ends with one of these.
C12_OutcomePerClass ==
    \A f \in Range(files) :
        pc[f] = "done" =>
            /\ (status[f] = "error_task_internal" <=> beh[f].fault = "try")
            /\ (status[f] = "error_converting" <=>
                    (f \in EncodedFiles /\ beh[f].enc \in {"fail_partial", "fail_early", "spawn_error"}))
            /\ (status[f] = "error_deleting" =>
                    (f \in EncodedFiles /\ beh[f].enc = "ok"))
            /\ ((f \in EncodedFiles /\ beh[f].enc = "ok" /\ beh[f].unlinkSrcFails)
                    => status[f] = "error_deleting")

C12_Witness ==
    \E f, g, h \in Range(files) :
        /\ beh[f].enc = "spawn_error" /\ status[f] = "error_converting"
        /\ beh[g].enc = "fail_partial" /\ status[g] = "error_converting"
        /\ beh[h].unlinkSrcFails /\ status[h] = "error_deleting"

\* C13: an exception that escapes the try block of processFile ends the
\* file's pipeline with error_task_internal, reported once; the task leaves
\* the pool, the free slot is refilled from the queue, and the batch
\* completes only when every file is done.
C13_ExceptionContained ==
    \A f \in Range(files) :
        (beh[f].fault = "try" /\ pc[f] = "done") =>
            /\ status[f] = "error_task_internal"
            /\ ReportCount(f) = 1
            /\ \A i \in 1 .. Len(activeTasks) : activeTasks[i] # f
            /\ (queue # <<>> => Len(activeTasks) = parallelCount)
            /\ (processingComplete <=> \A g \in Range(files) : pc[g] = "done")
            /\ (resolved => \A g \in Range(files) : status[g] # "none")

C13_Witness ==
    /\ resolved
    /\ Len(files) > parallelCount
    /\ beh[files[1]].fault = "try"
    /\ status[files[Len(files)]] = "converted"

\* C14: files are admitted in the order of the list: at every moment the
\* files already admitted are a prefix of the list, the queue is the rest
\* of the list, and the tasks in the pool stand in list order.
C14_AdmittedInListOrder ==
    \E k \in 0 .. Len(files) :
        /\ queue = SubSeq(files, k + 1, Len(files))
        /\ \A i \in 1 .. Len(files) : (pc[files[i]] = "queued") <=> (i > k)
        /\ \A i, j \in 1 .. Len(activeTasks) :
              i < j => \E m, n \in 1 .. k :
                          m < n /\ files[m] = activeTasks[i] /\ files[n] = activeTasks[j]

C14_Witness ==
    /\ Len(files) = 3
    /\ pc[files[1]] \in {"encoding", "writing"}
    /\ pc[files[2]] = "done"
    /\ pc[files[3]] = "probing"

\* C15: when ffprobe cannot be spawned, exits nonzero, prints what cannot be
\* parsed, reports no stream or no usable width or height, the pipeline goes
\* on to convertToWebm with crf 24 and ends with the status the conversion
\* gives; it never ends with error_task_internal.
C15_ProbeNeverFails ==
    \A f \in Range(files) :
        LET p      == beh[f].probe
            absent == \/ p.result # "stream"
                      \/ p.width.kind \in {"missing", "text"}
                      \/ p.height.kind \in {"missing", "text"}
        IN  (absent /\ pc[f] \notin {"queued", "probing"}) =>
                /\ \A r \in encoderRuns : r.file = f => r.crf = 24
                /\ pc[f] = "done" =>
                      status[f] = ( IF dryRun THEN "skipped_dry_run"
                                    ELSE IF f \notin EncodedFiles THEN "skipped_exists"
                                    ELSE IF beh[f].enc # "ok" THEN "error_converting"
                                    ELSE IF f \in fsys THEN "error_deleting"
                                    ELSE "converted" )

C15_Witness ==
    /\ \E f \in Range(files) :
          /\ beh[f].probe.result = "unparsable"
          /\ status[f] = "converted"
          /\ [file |-> f, crf |-> 24] \in encoderRuns
    /\ \E f \in Range(files) :
          /\ beh[f].probe.result \in {"command_error", "no_stream"}
          /\ status[f] = "error_converting"
    /\ \E f \in Range(files) :
          /\ beh[f].probe.result = "spawn_error"
          /\ status[f] = "skipped_exists"

\* C16 as stated: every summary getMediaInfo returns has a width and a
\* height greater than 0.
C16_PositiveDimensions ==
    (call.pc = "probed" /\ call.mediaInfo.present) =>
        (call.mediaInfo.width > 0 /\ call.mediaInfo.height > 0)

\* C16, amended: getMediaInfo returns a summary exactly when the stream's
\* width and height both parse as integers, and the summary carries the
\* parsed values, zero and negative ones included.
C16_ParsedDimensions ==
    call.pc = "probed" =>
        LET p == call.probe
        IN  /\ call.mediaInfo.present <=>
                  ( /\ p.result = "stream"
                    /\ p.width.kind \in {"num", "str"}
                    /\ p.height.kind \in {"num", "str"} )
            /\ call.mediaInfo.present =>
                  ( /\ call.mediaInfo.width = p.width.val
                    /\ call.mediaInfo.height = p.height.val )

C16_Witness ==
    /\ call.pc = "probed"
    /\ call.mediaInfo.present
    /\ call.mediaInfo.width = 0
    /\ call.mediaInfo.height = -1

\* C17: determineCrf returns 24 for a missing summary, a value of the table
\* chosen by the height alone when the bit rate is NaN, always one of 20,
\* 22, 24, and the same value when called again with the same summary.
C17_CrfTotal ==
    call.pc \in {"decided", "again"} =>
        LET m == call.mediaInfo
        IN  /\ call.crf \in {20, 22, 24}
            /\ ~m.present => call.crf = 24
            /\ (m.present /\ m.bitRateIsNaN) =>
                  call.crf = ( IF m.height >= 1080 THEN 24
                               ELSE IF m.height >= 720 THEN 22 ELSE 20 )
            /\ call.pc = "again" => call.again = call.crf

C17_Witness ==
    /\ call.pc = "again"
    /\ call.mediaInfo.present
    /\ call.mediaInfo.bitRateIsNaN
    /\ call.probe.bit_rate = RawNum(0)
    /\ call.crf = 22

\* C18 as stated: the table is monotonic and every threshold is an
\* inclusive lower bound: a height of 720 or 1080 and a bit rate of exactly
\* 8 Mbps fall in the bucket that starts there.
C18_InclusiveThresholds ==
    (call.pc = "decided" /\ call.mediaInfo.present) =>
        LET m == call.mediaInfo
        IN  /\ m.height >= 1080 => call.crf = 24
            /\ (~m.bitRateIsNaN /\ m.bitRate >= 8000000) => call.crf = 24
            /\ m.height >= 720 => call.crf >= 22

\* C18, amended: the value does not decrease when height and bit rate do
\* not decrease; the height thresholds 720 and 1080 are inclusive lower
\* bounds; the bit-rate threshold is exclusive: only more than 8 Mbps
\* selects 24 on its own, exactly 8 Mbps does not.
C18_MonotonicTable ==
    (call.pc = "decided" /\ call.mediaInfo.present) =>
        LET m       == call.mediaInfo
            Rate(x) == IF x.bitRateIsNaN THEN 0 ELSE x.bitRate
        IN  /\ \A n \in Summaries :
                  (n.present /\ n.height >= m.height /\ Rate(n) >= Rate(m))
                      => determineCrf(n) >= call.crf
            /\ m.height >= 1080 => call.crf = 24
            /\ Rate(m) > 8000000 => call.crf = 24
            /\ (Rate(m) <= 8000000 /\ m.height >= 720 /\ m.height < 1080) => call.crf = 22
            /\ (Rate(m) <= 8000000 /\ m.height < 720) => call.crf = 20

C18_Witness ==
    /\ call.pc = "decided"
    /\ call.mediaInfo.present
    /\ call.mediaInfo.bitRate = 8000000
    /\ call.mediaInfo.height = 480
    /\ call.crf = 20

\* C19: after a successful rename of moveFailedFile the source is gone from
\* its path and exists below the quarantine directory at its path relative
\* to the root, with every directory of that path.
C19_QuarantineKeepsPath ==
    \A e \in ops :
        (e.op = "rename" /\ e.ok) =>
            /\ e.by \notin fsys
            /\ MkPath(FailedDirName(RootName), e.by.dir, e.by.name, e.by.ext) \in fsys

\* C20: when mkdirSync or renameSync fails inside moveFailedFile, or the
\* source is missing at the move, convertToWebm still returns
\* error_converting, the file is reported once and stays where it was, and
\* the batch goes on: the free slot is refilled and the batch completes
\* only when every file is done.
C20_QuarantineFailureContained ==
    \A e \in ops :
        ( \/ e.op \in {"mkdir", "rename"} /\ ~e.ok
          \/ e.op = "check_source" /\ ~e.ok ) =>
            /\ pc[e.by] = "done"
            /\ status[e.by] = "error_converting"
            /\ steps[e.by][Len(steps[e.by])] = "return"
            /\ ReportCount(e.by) = 1
            /\ (e.op # "check_source" => e.by \in fsys)
            /\ (queue # <<>> => Len(activeTasks) = parallelCount)
            /\ (processingComplete <=> \A g \in Range(files) : pc[g] = "done")

C20_Witness ==
    /\ resolved
    /\ \E e \in ops : e.op = "mkdir" /\ ~e.ok
    /\ \E e \in ops : e.op = "rename" /\ ~e.ok
    /\ status[files[Len(files)]] = "converted"

\* C25: the promise is resolved in the step of the completion that drains
\* the batch (or in the first step, for the empty list): no timer poll of
\* processingComplete lies between the last completion and the resolution.
C25_ResolvedByCompletion ==
    [][(~processingComplete /\ processingComplete') => resolved']_vars

\* C26: after every admission or completion step the queue is empty or the
\* pool holds exactly parallelCount pipelines, and the pool holds exactly
\* the pipelines that have started and not ended, each once.
C26_WorkConserving ==
    pcMain = "running" =>
        /\ queue = <<>> \/ Len(activeTasks) = parallelCount
        /\ Range(activeTasks) =
              { f \in Range(files) : pc[f] \in {"probing", "encoding", "writing"} }
        /\ Cardinality(Range(activeTasks)) = Len(activeTasks)

\* A completion has freed a slot and the last queued file has taken it.
C26_Witness ==
    /\ parallelCount = 2
    /\ Len(files) = 3
    /\ processedCount = 1
    /\ queue = <<>>
    /\ Len(activeTasks) = 2

\* C28: in every final state of a batch the output of every file with
\* status converted (whose source the pipeline has deleted) exists.
C28_NoSourceLost ==
    resolved =>
        \A f \in Range(files) :
            status[f] = "converted" => OutputFilePath(f) \in fsys

\* C29: every file is in exactly one of the queue, the pool and the
\* finished files; total - |queue| - |pool| <= processedCount <=
\* total - |queue|; processedCount = total where the promise is resolved.
C29_TaskConservation ==
    /\ Len(files) - Len(queue) - Len(activeTasks) <= processedCount
    /\ processedCount <= Len(files) - Len(queue)
    /\ \A f \in Range(files) :
          Cardinality({ i \in 1 .. Len(queue) : queue[i] = f })
            + Cardinality({ i \in 1 .. Len(activeTasks) : activeTasks[i] = f })
            + (IF pc[f] = "done" THEN 1 ELSE 0) = 1
    /\ resolved => processedCount = Len(files)

C29_Witness ==
    /\ Len(files) = 3
    /\ Len(queue) = 1
    /\ Len(activeTasks) = 1
    /\ processedCount = 1
    /\ status[files[1]] = "error_converting"

\* C27: while a file waits for a process that never ends the promise is
\* not resolved; with a limit of 1 every later file of the list stays
\* queued; with a limit of 2 or more and one such file in the list, every
\* other file is eventually done and reported once, and stays so.
C27_HungBlocksOwnSlot ==
    /\ [](\A f \in Range(files) :
            Hung(f) =>
                /\ ~resolved
                /\ ~processingComplete
                /\ parallelCount = 1 =>
                      \A i, j \in 1 .. Len(files) :
                          (files[i] = f /\ i < j) => pc[files[j]] = "queued")
    /\ ( /\ parallelCount >= 2
         /\ Cardinality({ f \in Range(files) :
                            beh[f].probe.result = "hang" \/ beh[f].enc = "hang" }) = 1 )
       => <>[](\A f \in Range(files) :
                  (beh[f].probe.result # "hang" /\ beh[f].enc # "hang") =>
                      (pc[f] = "done" /\ ReportCount(f) = 1))

C27_Witness ==
    /\ parallelCount = 2
    /\ Len(files) = 3
    /\ Hung(files[1])
    /\ pc[files[2]] = "done" /\ status[files[2]] = "converted"
    /\ pc[files[3]] = "done"
    /\ ~resolved

\* C30: in the sequential walker at most one encoder runs at any time, no
\* file is probed while a conversion is running, the final status line of
\* a file is written after its conversion has ended and carries the glyph
\* of the conversion's outcome, and processDirectory resolves only after
\* every conversion has ended.
C30_StrictlySequential ==
    pcMain = "walking" =>
        /\ Len(Converting) <= 1
        /\ Converting # <<>> => \A f \in Range(files) : pc[f] # "probing"
        /\ \A i \in 1 .. Len(reports) :
              /\ pc[reports[i].file] = "done"
              /\ reports[i].status = StatusIndicator(status[reports[i].file])
        /\ resolved => \A f \in Range(files) : pc[f] = "done"

\* The entries of a directory that can be read.
ListedEntries(dir) ==
    IF dir.kind = "dir" /\ dir.readable THEN Range(dir.children) ELSE {}

\* A regular file whose extension is not .webm in any case.
WantedFile(entry) ==
    /\ entry.kind = "file"
    /\ ~(entry.name.base # "" /\ entry.name.ext \in {".webm", ".WEBM", ".Webm"})

\* The paths of the wanted files below root that a chain of readable
\* directories leads to.
ExpectedFiles(root) ==
    { <<e1.name>> : e1 \in { e \in ListedEntries(root) : WantedFile(e) } }
    \cup UNION { { <<e1.name, e2.name>> :
                     e2 \in { e \in ListedEntries(e1) : WantedFile(e) } } :
                 e1 \in ListedEntries(root) }
    \cup UNION { UNION { { <<e1.name, e2.name, e3.name>> :
                             e3 \in { e \in ListedEntries(e2) : WantedFile(e) } } :
                         e2 \in ListedEntries(e1) } :
                 e1 \in ListedEntries(root) }

\* C24: the scan does not throw and returns, each exactly once, the
\* regular files of the tree whose extension is not .webm in any case and
\* that readable directories lead to; no directory, symbolic link or
\* special file, and nothing from a directory that cannot be read.
C24_DiscoveryExact ==
    call.pc = "scanned" =>
        /\ ~call.threw
        /\ Range(call.files) = ExpectedFiles(call.root)
        /\ Len(call.files) = Cardinality(ExpectedFiles(call.root))

C24_Witness ==
    /\ call.pc = "scanned"
    /\ call.root.readable
    /\ Len(call.root.children) = 2
    /\ LET d1 == call.root.children[1]
           d2 == call.root.children[2]
       IN  /\ d1.kind = "dir" /\ ~d1.readable
           /\ Len(d1.children) = 2 /\ d1.children[1] = MkLeaf("file", "a", ".mp4")
           /\ d2.kind = "dir" /\ d2.readable /\ d2.name.ext = ".webm"
           /\ Len(d2.children) = 2 /\ d2.children[1] = MkLeaf("file", "d", ".WEBM")
           /\ d2.children[2].kind = "dir" /\ d2.children[2].readable
           /\ call.files = << <<d2.name, d2.children[2].name, MkName("a", ".mp4")>> >>

\* C21: when the value of --parallel is 0, negative or not a number, the
\* target is missing or no directory, or ffmpeg or ffprobe cannot be
\* executed, the program (asked to convert, not to print its help text)
\* exits with a nonzero code and has not scanned, probed, encoded, deleted
\* or moved anything.
C21_SetupPrecedesWork ==
    ( /\ cli.pc # "none"
      /\ ~cli.help
      /\ \/ cli.parallel.kind \notin {"num", "str"}
         \/ cli.parallel.val < 1
         \/ cli.target # "dir"
         \/ cli.ffmpeg # "ok"
         \/ cli.ffprobe # "ok" )
    => /\ cli.pc \in {"start", "exited"}
       /\ cli.pc = "exited" => cli.exitCode # 0
       /\ pcMain = "setup"
       /\ \A f \in Range(files) : pc[f] = "queued"
       /\ encoderRuns = {} /\ ops = {} /\ reports = <<>>
       /\ fsys = cli.before.fsys /\ madeDirs = cli.before.madeDirs

\* C22: after a setup that passed the program exits with code 0 when the
\* batch has run to its end, whatever the statuses of the files; it exits
\* with another code only when the setup failed.  (Exit code 0 with files
\* in the tree means that the batch has run, unless the help text was
\* asked for.)
C22_ExitCode ==
    cli.pc = "exited" =>
        /\ ~SetupFails(cli) => cli.exitCode = 0
        /\ cli.exitCode # 0 => (SetupFails(cli) /\ ~cli.help /\ pcMain = "setup")
        /\ (cli.exitCode = 0 /\ ~cli.help /\ files # <<>>) =>
              (resolved /\ \A f \in Range(files) : pc[f] = "done")

C22_Witness ==
    /\ cli.pc = "exited"
    /\ cli.run = 1
    /\ cli.exitCode = 0
    /\ Len(files) = 2
    /\ \A f \in Range(files) : status[f] = "error_converting"
    /\ \E f \in Range(files) : FailedFilePath(f) \in fsys

\* C23 as stated: the second run gives skipped_exists to every file it
\* finds, invokes no encoder and leaves the filesystem as it found it.
C23_SecondRunIdle ==
    (cli.pc \in {"batch", "exited"} /\ cli.run = 2) =>
        /\ \A f \in Range(files) : pc[f] = "done" => status[f] = "skipped_exists"
        /\ encoderRuns = {}
        /\ fsys = cli.before.fsys /\ madeDirs = cli.before.madeDirs

\* C23: in the second run every file found whose output exists when the
\* run begins ends skipped_exists, with no encoder run for it and with the
\* file and its output left in place; when every file found has its
\* output, no encoder is invoked and the filesystem is left as it was.
C23_SecondRunSkipsExisting ==
    (cli.pc \in {"batch", "exited"} /\ cli.run = 2) =>
        /\ \A f \in Range(files) :
              OutputFilePath(f) \in cli.before.fsys =>
                  /\ pc[f] = "done" => status[f] = "skipped_exists"
                  /\ \A r \in encoderRuns : r.file # f
                  /\ f \in fsys /\ OutputFilePath(f) \in fsys
        /\ (\A f \in Range(files) : OutputFilePath(f) \in cli.before.fsys) =>
              /\ encoderRuns = {}
              /\ fsys = cli.before.fsys /\ madeDirs = cli.before.madeDirs

C23_Witness ==
    /\ cli.pc = "exited" /\ cli.run = 2
    /\ Len(files) = 2
    /\ \A f \in Range(files) : status[f] = "skipped_exists"
    /\ fsys = cli.before.fsys

====
